---- MODULE Spec2Model ----
(***************************************************************************)
(* RadioOnline (src/main.py): a terminal radio launcher.  The model has    *)
(* the playback session (Radio and the engine's player handles), the       *)
(* navigation history (PathManager), the page registry (AskManager), the   *)
(* three pages (AskMenu, AskStation, AskVolume) and the main loop          *)
(* (Controller.mainloop).                                                  *)
(*                                                                         *)
(* Three specifications drive the same state:                              *)
(*   Spec      the running program, one action per input event;            *)
(*   SpecRadio the Radio object called directly, one action per method;    *)
(*   SpecNav   the PathManager called directly (forward / back).           *)
(***************************************************************************)
EXTENDS Integers, Sequences, FiniteSets, TLC

VARIABLES
    pc,            \* "running" | "exited" (SystemExit) | "crashed" (uncaught exception)
    stations,      \* AskStation.stations: the catalog, in source order
    memory,        \* PathManager.memory: the navigation history
    current_page,  \* AskManager.__current_page, as an index into asks
    now_station,   \* Radio._now_station: None or <<station>>
    player,        \* Radio.player as an index into players; 0 = attribute absent
    players,       \* every handle the engine has handed out, oldest first
    volume,        \* audio volume of the handle Radio.player refers to
    frames,        \* AskMenu.get_input calls nested inside the first, one per rejected line
    fresh,         \* TRUE until the main loop has been given its first accepted input
    held,          \* most nested get_input calls the stack has held so far, up to MaxRejected
    last           \* the last operation: what it was given and what it raised

vars == <<pc, stations, memory, current_page, now_station, player, players, volume,
          frames, fresh, held, last>>

-----------------------------------------------------------------------------
(* Bounds of the model *)

MaxStations == 3    \* catalogs of 0..MaxStations stations
MaxPlayers == 2     \* handles created in one run
MaxHistory == 5     \* length of the history under SpecNav
VolumeSlack == 1    \* how far outside [0,100] the engine's volume may start
MaxRejected == 1    \* rejected lines in a row at the menu after the first input
MaxNested == 1100   \* rejected lines in a row at the menu when they open the session

(* Program constants *)

MaxVolume == 100
MinVolume == 0
BarStep == 5
BarWidth == 20
KeyEnter == 13
KeyUp == 72
KeyDown == 80

\* How the interpreter ends the program when its stack cannot take another
\* call: RecursionError raised in the program, or the interpreter giving up
\* ("Fatal Python error: Cannot recover from stack overflow").
StackFull == {"RecursionError", "FatalError"}

-----------------------------------------------------------------------------
(* Values *)

None == <<>>
Some(x) == <<x>>

\* Station(id, title, stream_url); the title is determined by the id here.
Station(i) == [id |-> 10 + i, stream_url |-> 20 + i]

\* _StationParser.get_station_list: the catalog in order of appearance.
get_station_list(n) == [i \in 1..n |-> Station(i)]

\* Python list indexing: seq[i] with negative indices counting from the end.
PyInRange(seq, i) == i >= 0 - Len(seq) /\ i < Len(seq)
PyIndex(seq, i) == IF i >= 0 THEN seq[i + 1] ELSE seq[Len(seq) + i + 1]

\* seq[:-1]
PyButLast(seq) == IF Len(seq) = 0 THEN <<>> ELSE SubSeq(seq, 1, Len(seq) - 1)

\* What the engine reports as the volume of a fresh handle.
EngineVolumes ==
    {MinVolume - VolumeSlack, MinVolume, MaxVolume \div 2, MaxVolume, MaxVolume + VolumeSlack}

\* How the engine answers while play() sets up a stream:
\*   "ok"       everything succeeds
\*   "instance" vlc.Instance(...) returns None, so line 74 raises
\*   "start"    the engine raises at player.play() (line 77)
EngineOutcomes == {"ok", "instance", "start"}

-----------------------------------------------------------------------------
(* Radio: the playback session.  A radio value is the record                *)
(* [now_station, player, players, volume, raised].                          *)

Radio ==
    [now_station |-> now_station, player |-> player, players |-> players,
     volume |-> volume, raised |-> "none"]

hasattr_player(r) == r.player # 0

\* Radio.stop
Radio_stop(r) ==
    IF hasattr_player(r)
    THEN [r EXCEPT !.players[r.player].state = "stopped"]
    ELSE r

\* Radio.pause: player.pause() toggles between playing and paused.
Radio_pause(r) ==
    IF hasattr_player(r)
    THEN LET s == r.players[r.player].state IN
         [r EXCEPT !.players[r.player].state =
             IF s = "playing" THEN "paused"
             ELSE IF s = "paused" THEN "playing"
             ELSE s]
    ELSE r

\* Radio.volume
Radio_volume(r, value) ==
    IF ~hasattr_player(r) THEN r ELSE [r EXCEPT !.volume = value]

\* Radio.select_station with the now_station setter; opt is None or <<station>>.
Radio_select_station(r, opt) ==
    IF opt = None
    THEN [r EXCEPT !.raised = "AttributeError"]
    ELSE [r EXCEPT !.now_station = opt]

\* Radio.play, lines 73-78: a new handle for now_station, started.
play_new_handle(r, engine, vol) ==
    LET created == [r EXCEPT !.players = Append(r.players, [media |-> 0, state |-> "new"]),
                             !.player = Len(r.players) + 1,
                             !.volume = vol]
        k == created.player
    IN  IF engine = "instance"
        THEN [r EXCEPT !.raised = "AttributeError"]
        ELSE IF r.now_station = None
        THEN [created EXCEPT !.raised = "AttributeError"]
        ELSE LET withMedia ==
                    [created EXCEPT !.players[k].media = r.now_station[1].stream_url]
             IN  IF engine = "start"
                 THEN [withMedia EXCEPT !.raised = "VLCException"]
                 ELSE [withMedia EXCEPT !.players[k].state = "playing"]

\* Radio.play with line 72 (self.stop()) left out.
Radio_play_without_stop(r, engine, vol) == play_new_handle(r, engine, vol)

\* Radio.play
Radio_play(r, engine, vol) == play_new_handle(Radio_stop(r), engine, vol)

-----------------------------------------------------------------------------
(* AskManager: the page registry *)

\* AskManager.__asks after __init__: menu, station, volume, in this order.
asks == <<[name |-> "menu"], [name |-> "station"], [name |-> "volume_settings"]>>

PageNames == {asks[i].name : i \in 1..Len(asks)}

current_name == asks[current_page].name

(* PathManager.  A navigation value is [memory, current_page, raised]. *)

Nav == [memory |-> memory, current_page |-> current_page, raised |-> "none"]

\* PathManager.forward
forward(nv, name) ==
    LET found == {i \in 1..Len(asks) : asks[i].name = name}
        appended == [nv EXCEPT !.memory = Append(nv.memory, name)]
    IN  IF found = {}
        THEN [appended EXCEPT !.raised = "StopIteration"]
        ELSE [appended EXCEPT
                 !.current_page = CHOOSE i \in found : \A j \in found : i <= j]

\* PathManager.back with line 111 (self.forward(last_page)) replaced by a
\* plain re-append: the page is never re-activated.
back_without_activate(nv) ==
    LET m1 == IF Len(nv.memory) > 1 THEN PyButLast(nv.memory) ELSE nv.memory
    IN  [nv EXCEPT !.memory = m1]

\* PathManager.back with the guard of line 106 left out: the pop is
\* unconditional, and memory[-1] raises on the emptied list.
back_without_guard(nv) ==
    LET m1 == PyButLast(nv.memory)
    IN  IF Len(m1) = 0
        THEN [nv EXCEPT !.memory = m1, !.raised = "IndexError"]
        ELSE forward([nv EXCEPT !.memory = PyButLast(m1)], PyIndex(m1, 0 - 1))

\* PathManager.back with line 110 (the second pop) left out, so that the
\* re-activation through forward grows the history.
back_without_second_pop(nv) ==
    LET m1 == IF Len(nv.memory) > 1 THEN PyButLast(nv.memory) ELSE nv.memory
    IN  forward([nv EXCEPT !.memory = m1], PyIndex(m1, 0 - 1))

\* PathManager.back
back(nv) ==
    LET m1 == IF Len(nv.memory) > 1 THEN PyButLast(nv.memory) ELSE nv.memory
        last_page == PyIndex(m1, 0 - 1)
    IN  forward([nv EXCEPT !.memory = PyButLast(m1)], last_page)

-----------------------------------------------------------------------------
(* AskStation *)

RECURSIVE show_text_loop(_, _, _)
show_text_loop(sts, i, rows) ==
    IF ~(i <= Len(sts)) THEN [rows |-> rows, raised |-> "none"]
    ELSE IF ~PyInRange(sts, i) THEN [rows |-> rows, raised |-> "IndexError"]
    ELSE LET station_1 == <<[num |-> i + 1, station |-> PyIndex(sts, i)]>>
             station_2 == IF PyInRange(sts, i + 1)
                          THEN <<[num |-> i + 2, station |-> PyIndex(sts, i + 1)]>>
                          ELSE <<>>
         IN  show_text_loop(sts, i + 2, Append(rows, station_1 \o station_2))

\* AskStation.show_text: the rows printed, and the exception that ended it.
AskStation_show_text(sts) == show_text_loop(sts, 0, <<>>)

\* AskStation.run_callback with lines 172 and 173 swapped: back-navigation
\* runs before play().
AskStation_run_callback_back_first(r, nv, station, engine, vol) ==
    LET selected == Radio_select_station(Radio_stop(r), Some(station))
        played == Radio_play(selected, engine, vol)
    IN  [radio |-> played, nav |-> back(nv), raised |-> played.raised]

\* AskStation.run_callback
AskStation_run_callback(r, nv, station, engine, vol) ==
    LET selected == Radio_select_station(Radio_stop(r), Some(station))
        played == Radio_play(selected, engine, vol)
    IN  IF played.raised # "none"
        THEN [radio |-> played, nav |-> nv, raised |-> played.raised]
        ELSE [radio |-> played, nav |-> back(nv), raised |-> "none"]

(* AskVolume *)

\* AskVolume.volume_up
volume_up(r) ==
    IF ~hasattr_player(r) THEN r
    ELSE IF r.volume >= MaxVolume THEN r
    ELSE [r EXCEPT !.volume = r.volume + 1]

\* AskVolume.volume_down with the test of line 265 left out.
volume_down_without_floor(r) ==
    IF ~hasattr_player(r) THEN r
    ELSE [r EXCEPT !.volume = r.volume - 1]

\* AskVolume.volume_down
volume_down(r) ==
    IF ~hasattr_player(r) THEN r
    ELSE IF r.volume <= MinVolume THEN r
    ELSE [r EXCEPT !.volume = r.volume - 1]

\* AskVolume.get_volume_scale with round(volume / 5) in place of volume // 5.
get_volume_scale_rounded(r) ==
    IF ~hasattr_player(r)
    THEN [available |-> FALSE, filled |-> 0, percent |-> 0]
    ELSE [available |-> TRUE,
          filled |-> IF (r.volume + 2) \div BarStep > 0
                     THEN (r.volume + 2) \div BarStep ELSE 0,
          percent |-> r.volume]

\* AskVolume.get_volume_scale: the sentinel text, or the bar and the percentage.
get_volume_scale(r) ==
    IF ~hasattr_player(r)
    THEN [available |-> FALSE, filled |-> 0, percent |-> 0]
    ELSE [available |-> TRUE,
          filled |-> IF r.volume \div BarStep > 0 THEN r.volume \div BarStep ELSE 0,
          percent |-> r.volume]

-----------------------------------------------------------------------------
(* State updates *)

SetRadio(r) ==
    /\ now_station' = r.now_station
    /\ player' = r.player
    /\ players' = r.players
    /\ volume' = r.volume

SetNav(nv) ==
    /\ memory' = nv.memory
    /\ current_page' = nv.current_page

\* The operation just performed, with the page that was active and the length
\* of the history when it was called.
Did(op, arg, raised, engine) ==
    last' = [op |-> op, arg |-> arg, raised |-> raised, engine |-> engine,
             page |-> current_page, depth |-> Len(memory)]

Init ==
    /\ pc = "running"
    /\ \E n \in 0..MaxStations : stations = get_station_list(n)
    /\ memory = <<"menu">>
    /\ current_page = 1
    /\ now_station = None
    /\ player = 0
    /\ players = <<>>
    /\ volume = 0
    /\ frames = 0
    /\ fresh = TRUE
    /\ held = 0
    /\ last = [op |-> "init", arg |-> 0, raised |-> "none", engine |-> "ok",
               page |-> 1, depth |-> 1]

-----------------------------------------------------------------------------
(* Spec: Controller.mainloop.  Each action is one input event handled by    *)
(* the active page, up to the next blocking read.                           *)

MenuInputs == (0 - 4)..4
StationInputs == (0 - MaxStations - 1)..(MaxStations + 1)
Keys == {KeyEnter, KeyUp, KeyDown, 224, 27}

\* AskMenu.get_input with text that int() rejects: message, then the handler
\* of ValueError calls get_input again (line 204), so every rejected line
\* leaves one more call on the interpreter's stack.  The nested call prompts
\* anew if the stack can take it; if not, the error is raised in the handler,
\* which no caller catches.  main.py does not set how many calls the stack
\* takes: the interpreter, its options and whatever started the program do, so
\* any rejected line can be the one, but not a line that the stack has taken
\* before in the same session.  Runs of more than MaxRejected lines are followed
\* only when they open the session, and none beyond MaxNested lines.
MenuNonNumeric ==
    /\ pc = "running" /\ current_name = "menu"
    /\ \/ /\ frames < (IF fresh THEN MaxNested ELSE MaxRejected)
          /\ pc' = "running"
          /\ frames' = frames + 1
          /\ held' = IF frames + 1 > held /\ frames + 1 <= MaxRejected
                     THEN frames + 1 ELSE held
          /\ Did("menu_nonnumeric", 0, "none", "ok")
       \/ /\ fresh \/ (frames = held /\ held < MaxRejected)
          /\ pc' = "crashed"
          /\ frames' = frames
          /\ held' = held
          /\ \E raised \in StackFull : Did("menu_nonnumeric", 0, raised, "ok")
    /\ UNCHANGED <<stations, memory, current_page, now_station, player, players, volume,
                   fresh>>

\* AskMenu.callbacks: exit, then the two navigation lambdas.
AskMenu_callbacks == <<"exit", "station", "volume_settings">>

\* AskMenu.run_callback with the test of line 211 left out: None is used as
\* a list index, which raises TypeError.
AskMenu_run_callback_without_None_test(index) ==
    IF index = None THEN "TypeError"
    ELSE IF ~PyInRange(AskMenu_callbacks, index[1]) THEN "IndexError"
    ELSE PyIndex(AskMenu_callbacks, index[1])

\* AskMenu.run_callback(index), index being None or <<int>>: the callback it
\* runs, "nothing" when it runs none, or the exception the lookup raises.
AskMenu_run_callback(index) ==
    IF index = None THEN "nothing"
    ELSE IF ~PyInRange(AskMenu_callbacks, index[1]) THEN "IndexError"
    ELSE PyIndex(AskMenu_callbacks, index[1])

\* What the get_input of page name raises between being called by the main
\* loop and its read: the picker prints its listing first (line 162); the menu
\* text and the volume bar cannot fail.
get_input_show_text(name) ==
    IF name = "station" THEN AskStation_show_text(stations).raised ELSE "none"

\* The effect of what AskMenu.run_callback ran, from navigation value nv, and
\* of the main loop calling get_input of the page that is active afterwards,
\* up to its read.
MenuDoes(nv, outcome, op, arg) ==
    IF outcome = "nothing"
    THEN pc' = "running" /\ SetNav(nv) /\ Did(op, arg, "none", "ok")
    ELSE IF outcome = "exit"
    THEN pc' = "exited" /\ SetNav(nv) /\ Did(op, arg, "SystemExit", "ok")
    ELSE IF outcome \in PageNames
    THEN LET shown == get_input_show_text(outcome) IN
         /\ pc' = IF shown = "none" THEN "running" ELSE "crashed"
         /\ SetNav(forward(nv, outcome))
         /\ Did(op, arg, shown, "ok")
    ELSE pc' = "crashed" /\ SetNav(nv) /\ Did(op, arg, outcome, "ok")

\* AskMenu.get_input returning index through every nested call, then
\* AskMenu.run_callback(index), then the next page shown for its read.
MenuInput(index) ==
    /\ pc = "running" /\ current_name = "menu"
    /\ frames' = 0 /\ fresh' = FALSE /\ held' = held
    /\ MenuDoes(Nav, AskMenu_run_callback(Some(index)), "menu", index)
    /\ UNCHANGED <<stations, now_station, player, players, volume>>

\* AskStation.get_input with text that int() rejects: ValueError leaves the loop.
\* (The listing is what get_input prints first; a picker that was entered from
\* the menu has printed it already.)
StationNonNumeric ==
    /\ pc = "running" /\ current_name = "station"
    /\ LET shown == AskStation_show_text(stations) IN
       Did("station_nonnumeric", 0,
           IF shown.raised # "none" THEN shown.raised ELSE "ValueError", "ok")
    /\ pc' = "crashed"
    /\ fresh' = FALSE
    /\ UNCHANGED <<stations, memory, current_page, now_station, player, players, volume,
                   frames, held>>

\* AskStation.get_input reading number, then AskStation.run_callback(station).
StationInput(number, engine, vol) ==
    /\ pc = "running" /\ current_name = "station"
    /\ LET shown == AskStation_show_text(stations)
           station_number == number - 1
       IN  IF shown.raised # "none"
           THEN /\ pc' = "crashed"
                /\ Did("station", number, shown.raised, "ok")
                /\ UNCHANGED <<memory, current_page, now_station, player, players, volume>>
           ELSE IF ~PyInRange(stations, station_number)
           THEN /\ pc' = "crashed"
                /\ Did("station", number, "IndexError", "ok")
                /\ UNCHANGED <<memory, current_page, now_station, player, players, volume>>
           ELSE LET res == AskStation_run_callback(Radio, Nav,
                               PyIndex(stations, station_number), engine, vol)
                IN  /\ Len(players) < MaxPlayers
                    /\ pc' = IF res.raised # "none" THEN "crashed" ELSE "running"
                    /\ SetRadio(res.radio)
                    /\ SetNav(res.nav)
                    /\ Did("station", number, res.raised, engine)
    /\ fresh' = FALSE
    /\ UNCHANGED <<stations, frames, held>>

\* AskVolume.get_input, lines 279-282, with a final else that treats every
\* other key as the down key.
AskVolume_adjust_else_down(r, key) ==
    IF key = KeyUp THEN volume_up(r) ELSE volume_down(r)

\* AskVolume.get_input, lines 279-282: what a key other than Enter does.
AskVolume_adjust(r, key) ==
    IF key = KeyUp THEN volume_up(r)
    ELSE IF key = KeyDown THEN volume_down(r)
    ELSE r

\* AskVolume.get_input: one key read by the polling loop.  Enter navigates back
\* and returns None; the main loop then calls run_callback(None) on the page
\* that is active by now (line 331).
VolumeKey(key) ==
    /\ pc = "running" /\ current_name = "volume_settings"
    /\ IF key = KeyEnter
       THEN LET nv == back(Nav)
                target == asks[nv.current_page].name
            IN  IF target = "menu"
                THEN /\ MenuDoes(nv, AskMenu_run_callback(None), "key", key)
                     /\ UNCHANGED <<now_station, player, players, volume>>
                ELSE IF target = "station"
                THEN \* AskStation.run_callback(None): stop(), then the setter raises
                     /\ pc' = "crashed"
                     /\ SetNav(nv)
                     /\ SetRadio(Radio_stop(Radio))
                     /\ Did("key", key, "AttributeError", "ok")
                ELSE \* AskPage.run_callback: pass
                     /\ pc' = "running"
                     /\ SetNav(nv)
                     /\ Did("key", key, "none", "ok")
                     /\ UNCHANGED <<now_station, player, players, volume>>
       ELSE /\ SetRadio(AskVolume_adjust(Radio, key))
            /\ Did("key", key, "none", "ok")
            /\ UNCHANGED <<pc, memory, current_page>>
    /\ fresh' = FALSE
    /\ UNCHANGED <<stations, frames, held>>

Next ==
    \/ MenuNonNumeric
    \/ \E index \in MenuInputs : MenuInput(index)
    \/ StationNonNumeric
    \/ \E number \in StationInputs, engine \in EngineOutcomes, vol \in EngineVolumes :
           StationInput(number, engine, vol)
    \/ \E key \in Keys : VolumeKey(key)

Spec == Init /\ [][Next]_vars

-----------------------------------------------------------------------------
(* SpecRadio: the Radio object and the picker's callback called directly,   *)
(* in any order.  An exception goes back to the caller.                     *)

CallSelectStation(opt) ==
    /\ LET r == Radio_select_station(Radio, opt) IN
       /\ SetRadio(r)
       /\ Did("select_station", IF opt = None THEN 0 ELSE opt[1].id, r.raised, "ok")
    /\ UNCHANGED <<pc, stations, memory, current_page, frames, fresh, held>>

CallPlay(engine, vol) ==
    /\ Len(players) < MaxPlayers
    /\ LET r == Radio_play(Radio, engine, vol) IN
       /\ SetRadio(r)
       /\ Did("play", 0, r.raised, engine)
    /\ UNCHANGED <<pc, stations, memory, current_page, frames, fresh, held>>

CallStop ==
    /\ SetRadio(Radio_stop(Radio))
    /\ Did("stop", 0, "none", "ok")
    /\ UNCHANGED <<pc, stations, memory, current_page, frames, fresh, held>>

CallPause ==
    /\ SetRadio(Radio_pause(Radio))
    /\ Did("pause", 0, "none", "ok")
    /\ UNCHANGED <<pc, stations, memory, current_page, frames, fresh, held>>

CallVolume(value) ==
    /\ SetRadio(Radio_volume(Radio, value))
    /\ Did("volume", value, "none", "ok")
    /\ UNCHANGED <<pc, stations, memory, current_page, frames, fresh, held>>

\* AskStation.run_callback(station), as the picker calls it for a selection.
CallRunCallback(i, engine, vol) ==
    /\ Len(players) < MaxPlayers
    /\ LET res == AskStation_run_callback(Radio, Nav, stations[i], engine, vol) IN
       /\ SetRadio(res.radio)
       /\ SetNav(res.nav)
       /\ Did("run_callback", i, res.raised, engine)
    /\ UNCHANGED <<pc, stations, frames, fresh, held>>

NextRadio ==
    \/ \E opt \in {None} \cup {Some(stations[i]) : i \in 1..Len(stations)} :
           CallSelectStation(opt)
    \/ \E engine \in EngineOutcomes, vol \in EngineVolumes : CallPlay(engine, vol)
    \/ CallStop
    \/ CallPause
    \/ \E value \in EngineVolumes : CallVolume(value)
    \/ \E i \in 1..Len(stations), engine \in EngineOutcomes, vol \in EngineVolumes :
           CallRunCallback(i, engine, vol)

SpecRadio == Init /\ [][NextRadio]_vars

-----------------------------------------------------------------------------
(* SpecNav: PathManager.forward and PathManager.back called directly with   *)
(* registered page names.                                                   *)

CallForward(name) ==
    /\ Len(memory) < MaxHistory
    /\ LET nv == forward(Nav, name) IN
       /\ SetNav(nv)
       /\ Did("forward", 0, nv.raised, "ok")
    /\ UNCHANGED <<pc, stations, now_station, player, players, volume, frames, fresh, held>>

CallBack ==
    /\ LET nv == back(Nav) IN
       /\ SetNav(nv)
       /\ Did("back", 0, nv.raised, "ok")
    /\ UNCHANGED <<pc, stations, now_station, player, players, volume, frames, fresh, held>>

NextNav ==
    \/ \E name \in PageNames : CallForward(name)
    \/ CallBack

SpecNav == Init /\ [][NextNav]_vars

-----------------------------------------------------------------------------
(* Properties *)

Playing == {i \in 1..Len(players) : players[i].state = "playing"}

Rendered == AskStation_show_text(stations).raised = "none"

\* C1: for a catalog of N >= 1 stations and k in 1..N, menu input 1 followed
\* by picker input k (the engine working) ends with now_station the k-th
\* station and exactly one handle playing, playing that station: menu input 1
\* leaves the picker waiting for its input, and picker input k then does that.
C1_PickPlaysKthStation ==
    [][/\ (/\ pc = "running" /\ current_name = "menu" /\ Len(stations) >= 1
           /\ last'.op = "menu" /\ last'.arg = 1)
             => pc' = "running" /\ asks[current_page'].name = "station"
       /\ (/\ last.op = "menu" /\ last.arg = 1
           /\ last'.op = "station" /\ last'.arg \in 1..Len(stations)
           /\ last'.engine = "ok")
             => /\ now_station' = Some(stations[last'.arg])
                /\ Cardinality(Playing') = 1
                /\ player' \in Playing'
                /\ players'[player'].media = stations[last'.arg].stream_url]_vars

\* C2: for a catalog of N >= 1 stations that the picker has rendered, picker
\* inputs 0 and N+1 are rejected with a re-prompt: the process keeps running,
\* the picker stays active, history and playback state are unchanged.
C2_PickerRejectsZeroAndNPlusOne ==
    [][(/\ pc = "running" /\ current_name = "station"
        /\ Len(stations) >= 1 /\ Rendered
        /\ last'.op = "station"
        /\ last'.arg \in {0, Len(stations) + 1})
          => /\ pc' = "running"
             /\ UNCHANGED <<memory, current_page, now_station, player, players, volume>>]_vars

\* C3: on the Menu, an integer outside {0,1,2} or a non-numeric input
\* re-prompts: the process keeps running, the Menu stays active, history and
\* playback state are unchanged.
C3_MenuRepromptsOnOtherInput ==
    [][(/\ pc = "running" /\ current_name = "menu"
        /\ \/ last'.op = "menu_nonnumeric"
           \/ last'.op = "menu" /\ last'.arg \notin {0, 1, 2})
          => /\ pc' = "running"
             /\ UNCHANGED <<memory, current_page, now_station, player, players, volume>>]_vars

\* C4: play() with no station selected (the engine working) fails with an
\* error and leaves the session unchanged: no handle is created and
\* now_station is still None.
C4_PlayWithoutStationChangesNothing ==
    [][(now_station = None /\ last'.op = "play" /\ last'.engine = "ok")
          => /\ last'.raised # "none"
             /\ UNCHANGED <<now_station, player, players>>]_vars

\* C5: after every volume-up and volume-down key, whatever volume the engine
\* started the handle with, the volume is within [0,100].
C5_VolumeStaysInRange ==
    (last.op = "key" /\ last.arg \in {KeyUp, KeyDown} /\ hasattr_player(Radio))
        => (volume >= MinVolume /\ volume <= MaxVolume)

\* C6: at most one handle is playing at any time, and it is the handle the
\* session refers to: every handle play() has replaced is stopped.
C6_AtMostOnePlaying ==
    /\ Cardinality(Playing) <= 1
    /\ \A i \in 1..Len(players) : i # player => players[i].state = "stopped"

C6_Witness ==
    /\ last.op = "play" /\ last.raised = "none"
    /\ Len(players) >= 2
    /\ Playing = {player}

\* C7: stop() called with a playing handle leaves the session with no handle,
\* so the volume reads as unavailable afterwards.
C7_StopClearsHandle ==
    [][(/\ hasattr_player(Radio) /\ player \in Playing
        /\ last'.op = "stop")
          => /\ ~hasattr_player(Radio)'
             /\ ~get_volume_scale(Radio)'.available]_vars

\* C8: when the engine fails while play() starts a stream, the main loop keeps
\* running and the session is left with no handle.
C8_EngineFailureIsSurvived ==
    (last.op = "station" /\ last.engine # "ok")
        => (pc = "running" /\ ~hasattr_player(Radio))

\* C9: between forward/back calls with registered names, the active page is
\* the registered page named by the last element of the history.
C9_ActivePageIsTopOfHistory ==
    /\ Len(memory) >= 1
    /\ asks[current_page].name = memory[Len(memory)]

C9_Witness ==
    /\ last.op = "back"
    /\ memory = <<"menu", "station">>
    /\ asks[current_page].name = "station"

\* C10: the history is never empty and its first element is "menu"; back()
\* never removes the root entry.
C10_RootIsRetained ==
    /\ Len(memory) >= 1
    /\ memory[1] = "menu"

C10_Witness ==
    /\ last.op = "back"
    /\ memory = <<"menu">>

\* C11: back() called with history ["menu"] leaves the history ["menu"] and the
\* Menu active, so any number of consecutive calls does.
C11_BackAtRootIsIdempotent ==
    (last.op = "back" /\ last.depth = 1)
        => (memory = <<"menu">> /\ asks[current_page].name = "menu")

C11_Witness ==
    /\ last.op = "back" /\ last.depth = 1 /\ last.page = 1
    /\ Len(memory) = 1

\* C12: forward("station") immediately followed by back() makes the page that
\* was active before the forward call the active page again.
C12_ForwardStationThenBackRestores ==
    [][(/\ last.op = "forward" /\ memory[Len(memory)] = "station"
        /\ last'.op = "back")
          => current_page' = last.page]_vars

C12_Witness ==
    /\ last.op = "back" /\ last.page = 2 /\ last.depth = 3
    /\ memory = <<"menu", "volume_settings">>
    /\ asks[current_page].name = "volume_settings"

\* C13: when the picker handles a valid selection k with history
\* ["menu","station"], play() of the selected station runs before the
\* back-navigation: once playback has started the Menu is active with history
\* ["menu"], and when play() raises the back-navigation has not run.
C13_PlayThenBack ==
    [][(/\ pc = "running" /\ current_name = "station"
        /\ memory = <<"menu", "station">> /\ Rendered
        /\ last'.op = "station" /\ last'.arg \in 1..Len(stations))
          => IF last'.raised = "none"
             THEN /\ now_station' = Some(stations[last'.arg])
                  /\ Playing' = {player'}
                  /\ players'[player'].media = stations[last'.arg].stream_url
                  /\ memory' = <<"menu">>
                  /\ asks[current_page'].name = "menu"
             ELSE /\ Playing' = {}
                  /\ memory' = memory
                  /\ current_page' = current_page]_vars

C13_Witness ==
    /\ last.op = "station" /\ last.raised = "none" /\ last.depth = 2
    /\ last.arg \in 1..Len(stations)
    /\ Playing = {player}
    /\ memory = <<"menu">>

\* C14: on the Menu, input 0 terminates the process, input 1 pushes "station"
\* and activates the picker, input 2 pushes "volume_settings" and activates
\* the volume page; each input does only that (after input 1 or 2 the process
\* is running, with the page it navigated to waiting for input).
C14_MenuDispatch ==
    [][(/\ pc = "running" /\ current_name = "menu"
        /\ last'.op = "menu" /\ last'.arg \in {0, 1, 2})
          => /\ UNCHANGED <<now_station, player, players, volume>>
             /\ IF last'.arg = 0
                THEN pc' = "exited" /\ UNCHANGED <<memory, current_page>>
                ELSE /\ pc' = "running"
                     /\ memory' = Append(memory,
                            IF last'.arg = 1 THEN "station" ELSE "volume_settings")
                     /\ asks[current_page'].name =
                            IF last'.arg = 1 THEN "station" ELSE "volume_settings"]_vars

\* The entries of the printed rows, row after row.
RECURSIVE Flatten(_)
Flatten(rows) == IF rows = <<>> THEN <<>> ELSE Head(rows) \o Flatten(Tail(rows))

\* C15: for a catalog of N >= 1 stations the picker's list renders without
\* error in ceil(N/2) rows of at most two entries, listing each station once,
\* in catalog order, under its 1-based number.
C15_ListRendersEveryStation ==
    (Len(stations) >= 1 /\ current_name = "station")
        => LET shown == AskStation_show_text(stations)
               n == Len(stations)
           IN  /\ shown.raised = "none"
               /\ Len(shown.rows) = (n + 1) \div 2
               /\ \A k \in 1..Len(shown.rows) :
                      Len(shown.rows[k]) = IF 2 * k <= n THEN 2 ELSE 1
               /\ Flatten(shown.rows) = [i \in 1..n |-> [num |-> i, station |-> stations[i]]]

Min(a, b) == IF a <= b THEN a ELSE b
Max(a, b) == IF a >= b THEN a ELSE b

\* C16: on the volume page with a station playing at volume v in [0,100], an
\* up key sets the volume to min(100, v+1) and a down key to max(0, v-1), and
\* the volume page stays active.
C16_KeysStepTheVolume ==
    [][(/\ pc = "running" /\ current_name = "volume_settings"
        /\ player \in Playing
        /\ volume >= MinVolume /\ volume <= MaxVolume
        /\ last'.op = "key" /\ last'.arg \in {KeyUp, KeyDown})
          => /\ volume' = IF last'.arg = KeyUp
                          THEN Min(MaxVolume, volume + 1)
                          ELSE Max(MinVolume, volume - 1)
             /\ UNCHANGED <<pc, memory, current_page, now_station, player, players>>]_vars

\* Five down keys from 50: the volume page shows 45.
C16_Witness ==
    /\ last.op = "key" /\ last.arg = KeyDown
    /\ asks[current_page].name = "volume_settings"
    /\ player \in Playing
    /\ volume = 45
    /\ get_volume_scale(Radio).percent = 45

\* C17 as stated: for every volume v in 0..100 the bar shows v/5 rounded to
\* the nearest integer, and the percentage v.
C17_BarIsRounded ==
    (/\ last.op = "key" /\ asks[current_page].name = "volume_settings"
     /\ hasattr_player(Radio) /\ volume >= MinVolume /\ volume <= MaxVolume)
        => LET shown == get_volume_scale(Radio) IN
           /\ shown.available
           /\ shown.percent = volume
           /\ 2 * (volume - BarStep * shown.filled) < BarStep
           /\ 2 * (BarStep * shown.filled - volume) < BarStep

\* C17 amended: for every volume v in 0..100 the bar shows v/5 rounded down
\* (the largest f with 5f <= v) out of 20, and the percentage v.
C17_BarIsFloored ==
    (/\ last.op = "key" /\ asks[current_page].name = "volume_settings"
     /\ hasattr_player(Radio) /\ volume >= MinVolume /\ volume <= MaxVolume)
        => LET shown == get_volume_scale(Radio) IN
           /\ shown.available
           /\ shown.percent = volume
           /\ shown.filled >= 0 /\ shown.filled <= BarWidth
           /\ BarStep * shown.filled <= volume
           /\ volume < BarStep * (shown.filled + 1)

C17_Witness ==
    /\ last.op = "key" /\ asks[current_page].name = "volume_settings"
    /\ hasattr_player(Radio)
    /\ volume = 99
    /\ get_volume_scale(Radio).filled = 19

\* C18: in the volume page's input loop a key other than up, down and accept
\* leaves volume, station, handle, history and active page unchanged, and
\* every key other than accept leaves the loop reading keys on the volume
\* page; control goes back to the main loop only with the accept key.
C18_OtherKeysAreIgnored ==
    [][(/\ pc = "running" /\ current_name = "volume_settings"
        /\ last'.op = "key")
          => /\ last'.arg \notin {KeyEnter, KeyUp, KeyDown}
                  => UNCHANGED <<pc, memory, current_page, now_station,
                                 player, players, volume>>
             /\ last'.arg # KeyEnter
                  => UNCHANGED <<pc, memory, current_page>>
             /\ current_page' # current_page => last'.arg = KeyEnter]_vars

C18_Witness ==
    /\ last.op = "key" /\ last.arg \notin {KeyEnter, KeyUp, KeyDown}
    /\ pc = "running"
    /\ asks[current_page].name = "volume_settings"
    /\ player \in Playing

\* C19: when the accept key ends the volume page's loop with history
\* ["menu","volume_settings"], the iteration finishes with the Menu active and
\* history ["menu"]; the None handed to the Menu runs none of its callbacks
\* (no exit, no navigation, no error) and the playback state is unchanged.
C19_AcceptReturnsToMenu ==
    [][(/\ pc = "running" /\ current_name = "volume_settings"
        /\ memory = <<"menu", "volume_settings">>
        /\ last'.op = "key" /\ last'.arg = KeyEnter)
          => /\ pc' = "running"
             /\ last'.raised = "none"
             /\ memory' = <<"menu">>
             /\ asks[current_page'].name = "menu"
             /\ UNCHANGED <<now_station, player, players, volume>>]_vars

C19_Witness ==
    /\ last.op = "key" /\ last.arg = KeyEnter /\ last.depth = 2
    /\ pc = "running"
    /\ memory = <<"menu">>
    /\ asks[current_page].name = "menu"

\* C20: between main-loop steps the history is ["menu"], ["menu","station"]
\* or ["menu","volume_settings"]; it never has more than two entries.
C20_HistoryIsShallow ==
    memory \in {<<"menu">>, <<"menu", "station">>, <<"menu", "volume_settings">>}

C20_Witness ==
    /\ last.op = "menu" /\ last.arg = 2
    /\ memory = <<"menu", "volume_settings">>
    /\ Playing = {player}
    /\ Len(players) >= 2

====
